---- MODULE Spec2Model ----
(***************************************************************************)
(* wgslsmith: the typed random expression generator                        *)
(* (wgslsmith/src/generator/expr.rs) over the TypeConstraints bitmask      *)
(* (src/types.rs), the scan for accessed variables                         *)
(* (harness/crates/harness/src/utils.rs), the reconditioner as the driver  *)
(* applies it and the interestingness test of a mismatch reduction         *)
(* (crates/wgslsmith/src/test.rs).                                         *)
(*                                                                         *)
(* gen_expr is recursive; its activations are the frames of `stack`.  The  *)
(* seeded RNG is the environment: every `choose`, `select` and `gen` is a  *)
(* nondeterministic choice over the values the RNG can return.             *)
(*                                                                         *)
(* Each component has a specification of its own (Spec, SpecDet, SpecTC,   *)
(* SpecVisit, SpecRecond, SpecReduce, SpecGpu); the variables of the       *)
(* components a specification does not run stay at their initial values.   *)
(***************************************************************************)
EXTENDS Integers, Sequences, FiniteSets, TLC

VARIABLES depth, scope, stack, ret, sel, tc, visit, recond, reduce, gpu

vars == <<depth, scope, stack, ret, sel, tc, visit, recond, reduce, gpu>>

\* the generator's own state, and the state of the other components
genVars == <<depth, scope, stack, ret>>

aux == <<sel, tc, visit, recond, reduce, gpu>>

\* a component that is not running
Idle == [pc |-> "idle"]

(***************************************************************************)
(* Bounds of the exploration.                                              *)
(***************************************************************************)
\* number of bindings the scope may hold
MaxVars == 1

\* the depths at which the RNG's draw of the BinOp production is explored:
\* 0 .. MaxBinDepth - 1
MaxBinDepth == 1

\* the constraint sets the algebra of TypeConstraints is applied to: the
\* masks over the first MaskBits variants (Bool, I32, U32 are the first three)
MaskBits == 3

\* the exit codes an executed shader is explored with: 0 .. MaxExitCode
MaxExitCode == 3

\* the iterations of the harness's polling loop that are explored, and the
\* compilation messages a shader module can report
MaxTicks == 3

MaxMessages == 2

(***************************************************************************)
(* DataType and the TypeConstraints bitmask.                               *)
(***************************************************************************)
ScalarTypes == <<"Bool", "I32", "U32">>

VecSizes == {2, 3, 4}

Scalar(t) == [tag |-> "Scalar", n |-> 1, t |-> t]

Vector(n, t) == [tag |-> "Vector", n |-> n, t |-> t]

DataType == {Scalar(ScalarTypes[i]) : i \in 1..3}
              \cup {Vector(n, ScalarTypes[i]) : n \in VecSizes, i \in 1..3}

NoType == [tag |-> "None", n |-> 0, t |-> "None"]

ScalarIndex(t) == CHOOSE i \in 1..3 : ScalarTypes[i] = t

\* position of a variant in the canonical enumeration: Bool, I32, U32 are
\* bits 0, 1, 2 (values 1, 2, 4), followed by vec2, vec3 and vec4 of each
BitOf(d) == 3 * (d.n - 1) + (ScalarIndex(d.t) - 1)

TypeOfBit(i) ==
    IF i < 3 THEN Scalar(ScalarTypes[i + 1])
             ELSE Vector((i \div 3) + 1, ScalarTypes[(i % 3) + 1])

RECURSIVE Pow2(_)
Pow2(i) == IF i = 0 THEN 1 ELSE 2 * Pow2(i - 1)

\* impl From<DataType> for TypeConstraints
into(d) == Pow2(BitOf(d))

RECURSIVE BitOr(_, _)
BitOr(a, b) ==
    IF a = 0 THEN b
    ELSE IF b = 0 THEN a
    ELSE (IF a % 2 = 1 \/ b % 2 = 1 THEN 1 ELSE 0) + 2 * BitOr(a \div 2, b \div 2)

RECURSIVE BitAnd(_, _)
BitAnd(a, b) ==
    IF a = 0 \/ b = 0 THEN 0
    ELSE (IF a % 2 = 1 /\ b % 2 = 1 THEN 1 ELSE 0) + 2 * BitAnd(a \div 2, b \div 2)

RECURSIVE count_ones(_)
count_ones(a) == IF a = 0 THEN 0 ELSE (a % 2) + count_ones(a \div 2)

union(a, b) == BitOr(a, b)

\* mutant: the operands are joined
intersection_or(a, b) == BitOr(a, b)

\* the empty result (None) is the mask 0
intersection(a, b) == BitAnd(a, b)

intersects(a, b) == intersection(a, b) # 0

RECURSIVE any_of(_)
any_of(S) ==
    IF S = {} THEN 0
    ELSE LET d == CHOOSE x \in S : TRUE
         IN  BitOr(into(d), any_of(S \ {d}))

\* select: scan the bits in canonical order and return the n-th set one
RECURSIVE select_scan(_, _, _, _)
select_scan(c, n, i, j) ==
    IF i >= 32 THEN NoType
    ELSE IF (c \div Pow2(i)) % 2 = 1
         THEN IF j = n THEN TypeOfBit(i) ELSE select_scan(c, n, i + 1, j + 1)
         ELSE select_scan(c, n, i + 1, j)

\* mutant: the drawn index is ignored
select_first(c, n) == select_scan(c, 0, 0, 0)

select(c, n) == select_scan(c, n, 0, 0)

\* the values gen_range(0..count_ones) can return
SelectDraws(c) == 0..(count_ones(c) - 1)

\* the constraint families TypeConstraints supplies
TCBool == into(Scalar("Bool"))

TCI32 == into(Scalar("I32"))

TCU32 == into(Scalar("U32"))

TCInt == union(TCI32, TCU32)

TCScalar == union(TCBool, TCInt)

VecOf(t) == any_of({Vector(n, t) : n \in VecSizes})

TCVecBool == VecOf("Bool")

TCVecI32 == VecOf("I32")

TCVecU32 == VecOf("U32")

TCVecInt == union(TCVecI32, TCVecU32)

TCVec == union(TCVecBool, TCVecInt)

TCUnconstrained == union(TCScalar, TCVec)

(***************************************************************************)
(* Scope: the bindings visible to the generator, in declaration order.     *)
(* Identifiers come from a monotonic counter, so binding i is variable i.  *)
(***************************************************************************)
scope_iter(sc) == {<<i, sc[i]>> : i \in 1..Len(sc)}

scope_intersects(sc, c) == \E b \in scope_iter(sc) : intersects(c, into(b[2]))

(***************************************************************************)
(* ExprGenerator                                                           *)
(***************************************************************************)
MAX_EXPR_DEPTH == 5

Range(q) == {q[i] : i \in 1..Len(q)}

Top == stack[Len(stack)]

Pop == SubSeq(stack, 1, Len(stack) - 1)

\* mutant: the depth test admits depth 5
AllowedExprTypes_le(c, d, sc) ==
    LET a1 == IF intersects(c, TCScalar) THEN <<"Lit">> ELSE <<>>
        a2 == IF intersects(c, TCVec) THEN Append(a1, "TypeCons") ELSE a1
        a3 == IF d <= MAX_EXPR_DEPTH THEN Append(a2, "UnOp") ELSE a2
        a4 == IF d <= MAX_EXPR_DEPTH /\ intersects(c, union(TCScalar, TCVecInt))
              THEN Append(a3, "BinOp") ELSE a3
        a5 == IF d <= MAX_EXPR_DEPTH /\ scope_intersects(sc, c)
              THEN Append(a4, "Var") ELSE a4
    IN  a5

\* mutant: BinOp admitted for every vector, not only the integer ones
AllowedExprTypes_vec(c, d, sc) ==
    LET a1 == IF intersects(c, TCScalar) THEN <<"Lit">> ELSE <<>>
        a2 == IF intersects(c, TCVec) THEN Append(a1, "TypeCons") ELSE a1
        a3 == IF d < MAX_EXPR_DEPTH THEN Append(a2, "UnOp") ELSE a2
        a4 == IF d < MAX_EXPR_DEPTH /\ intersects(c, union(TCScalar, TCVec))
              THEN Append(a3, "BinOp") ELSE a3
        a5 == IF d < MAX_EXPR_DEPTH /\ scope_intersects(sc, c)
              THEN Append(a4, "Var") ELSE a4
    IN  a5

\* gen_expr, the productions admitted (the vector `allowed`)
AllowedExprTypes(c, d, sc) ==
    LET a1 == IF intersects(c, TCScalar) THEN <<"Lit">> ELSE <<>>
        a2 == IF intersects(c, TCVec) THEN Append(a1, "TypeCons") ELSE a1
        a3 == IF d < MAX_EXPR_DEPTH THEN Append(a2, "UnOp") ELSE a2
        a4 == IF d < MAX_EXPR_DEPTH /\ intersects(c, union(TCScalar, TCVecInt))
              THEN Append(a3, "BinOp") ELSE a3
        a5 == IF d < MAX_EXPR_DEPTH /\ scope_intersects(sc, c)
              THEN Append(a4, "Var") ELSE a4
    IN  a5

\* mutant: BitNot is offered for the signed integers only
gen_un_op_signed(c) ==
    LET a1 == IF intersects(c, union(TCI32, TCVecI32)) THEN <<"Neg">> ELSE <<>>
        a2 == IF intersects(c, union(TCBool, TCVecBool)) THEN Append(a1, "Not") ELSE a1
        a3 == IF intersects(c, union(TCI32, TCVecI32)) THEN Append(a2, "BitNot") ELSE a2
    IN  a3

\* gen_un_op, the operators admitted
gen_un_op(c) ==
    LET a1 == IF intersects(c, union(TCI32, TCVecI32)) THEN <<"Neg">> ELSE <<>>
        a2 == IF intersects(c, union(TCBool, TCVecBool)) THEN Append(a1, "Not") ELSE a1
        a3 == IF intersects(c, union(TCInt, TCVecInt)) THEN Append(a2, "BitNot") ELSE a2
    IN  a3

ArithOps == <<"Plus", "Minus", "Times", "Divide", "Mod",
              "BitAnd", "BitOr", "BitXOr", "LShift", "RShift">>

LogOps == <<"LogAnd", "LogOr">>

ShiftOps == {"LShift", "RShift"}

\* gen_bin_op, the operators admitted
gen_bin_op(c) ==
    LET a1 == IF intersects(c, union(TCInt, TCVecInt)) THEN ArithOps ELSE <<>>
        a2 == IF intersects(c, TCBool) THEN a1 \o LogOps ELSE a1
    IN  a2

\* mutant: Neg narrowed to the integers instead of the signed integers
UnOpConstraints_int(op, c) ==
    CASE op = "Neg" -> intersection(c, union(TCInt, TCVecInt))
      [] op = "Not" -> intersection(c, union(TCBool, TCVecBool))
      [] op = "BitNot" -> intersection(c, union(TCInt, TCVecInt))

\* the operand constraint of a unary operator
UnOpConstraints(op, c) ==
    CASE op = "Neg" -> intersection(c, union(TCI32, TCVecI32))
      [] op = "Not" -> intersection(c, union(TCBool, TCVecBool))
      [] op = "BitNot" -> intersection(c, union(TCInt, TCVecInt))

\* the left operand constraint of a binary operator
BinOpLConstraints(op, c) ==
    IF op \in Range(ArithOps)
    THEN intersection(c, union(TCInt, TCVecInt))
    ELSE intersection(c, TCBool)

\* mutant: the shift arm is missing
BinOpRConstraints_same(op, l) == into(l)

\* mutant: the shift arm is taken for every operator
BinOpRConstraints_u32(op, l) ==
    IF l.tag = "Scalar" THEN TCU32 ELSE into(Vector(l.n, "U32"))

\* the right operand constraint, from the left operand's type
BinOpRConstraints(op, l) ==
    IF op \in ShiftOps
    THEN IF l.tag = "Scalar" THEN TCU32 ELSE into(Vector(l.n, "U32"))
    ELSE into(l)

\* the type of a BinOp node
BinOpDataType(l, r) == l

\* the type of a UnOp node
UnOpDataType(e) == e

\* gen_lit: the literal variant generated for the selected type
LitOf(t) ==
    CASE t.t = "Bool" -> "Bool"
      [] t.t = "I32" -> "Int"
      [] t.t = "U32" -> "UInt"

\* mutant: the literal's type is selected among all scalars
LitConstraints_any(c) == TCScalar

\* gen_lit: the constraint the literal's type is selected from
LitConstraints(c) == intersection(c, TCScalar)

\* the TypeCons arm: the constraint the vector type is selected from
TypeConsConstraints(c) == intersection(c, TCVec)

\* the TypeCons arm: the number of arguments and their element type
\* mutant: the argument loop runs one time too few
TypeConsArity_short(d) == d.n - 1

TypeConsArity(d) == d.n

\* mutant: the arguments are generated under any scalar
TypeConsArgConstraints_any(d) == TCScalar

\* mutant: the arguments are generated under the constructed type
TypeConsArgConstraints_same(d) == into(d)

TypeConsArgConstraints(d) == into(Scalar(d.t))

\* the Var arm: the bindings the variable is chosen among
VarCandidates(sc, c) == {b \in scope_iter(sc) : intersects(c, into(b[2]))}

\* mutant: the node takes the element type of the binding
VarDataType_elem(b) == Scalar(b[2].t)

\* the Var arm: the node's type is the binding's
VarDataType(b) == b[2]

\* mutant: the increment of depth is missing
Enter_same(d) == d

\* self.depth += 1 and self.depth -= 1 around the operand sub-calls
Enter(d) == d + 1

\* mutant: the decrement of depth is missing
Leave_same(d) == d

Leave(d) == d - 1

NoNode == [kind |-> "None", op |-> "None", lit |-> "None", name |-> 0,
           data_type |-> NoType, constraints |-> 0, operands |-> <<>>]

Node(kind, op, lit, name, t, c, operands) ==
    [kind |-> kind, op |-> op, lit |-> lit, name |-> name,
     data_type |-> t, constraints |-> c, operands |-> operands]

\* an activation of gen_expr that has computed `allowed`
Frame(c, d, sc) ==
    [constraints |-> c, allowed |-> AllowedExprTypes(c, d, sc), pc |-> "choose",
     op |-> "None", data_type |-> NoType, l |-> NoType, args |-> <<>>,
     entry |-> d]

\* the types the last select returned in two runs of one seed
NoSel == <<NoType, NoType>>

\* the binary operators the RNG's draw is explored over: all of them at the
\* root of an expression, below it one operator of each group that shares
\* every match arm of gen_expr (LShift and RShift; the eight other
\* arithmetic operators; LogAnd and LogOr)
BinOpSample == {"Plus", "LShift", "LogAnd"}

RngBinOps(root) ==
    IF root THEN Range(ArithOps) \cup Range(LogOps) ELSE BinOpSample

\* the constraint sets and the binding types the generator is driven with
CallConstraints == {TCBool, TCInt, TCVecBool, TCVecI32, union(TCBool, TCVecBool)}

ScopeTypes == {Vector(2, "I32")}

Init ==
    /\ depth = 0
    /\ scope = <<>>
    /\ stack = <<>>
    /\ ret = NoNode
    /\ sel = NoSel
    /\ tc = Idle
    /\ visit = Idle
    /\ recond = Idle
    /\ reduce = Idle
    /\ gpu = Idle

\* Scope::insert between two expressions
Insert(t) ==
    /\ stack = <<>>
    /\ Len(scope) < MaxVars
    /\ scope' = Append(scope, t)
    /\ ret' = NoNode
    /\ UNCHANGED <<depth, stack>>
    /\ UNCHANGED aux

\* a caller invokes gen_expr(constraints)
Call(c) ==
    /\ stack = <<>>
    /\ stack' = <<Frame(c, depth, scope)>>
    /\ ret' = NoNode
    /\ UNCHANGED <<depth, scope>>
    /\ UNCHANGED aux

Choosing(kind) ==
    /\ stack # <<>>
    /\ Top.pc = "choose"
    /\ kind \in Range(Top.allowed)

GenLit ==
    /\ Choosing("Lit")
    /\ LET c == LitConstraints(Top.constraints)
       IN  \E n \in SelectDraws(c) :
             LET t == select(c, n)
             IN  ret' = Node("Lit", "None", LitOf(t), 0, t, Top.constraints, <<>>)
    /\ stack' = Pop
    /\ UNCHANGED <<depth, scope>>
    /\ UNCHANGED aux

GenVar ==
    /\ Choosing("Var")
    /\ \E b \in VarCandidates(scope, Top.constraints) :
         ret' = Node("Var", "None", "None", b[1], VarDataType(b), Top.constraints, <<>>)
    /\ stack' = Pop
    /\ UNCHANGED <<depth, scope>>
    /\ UNCHANGED aux

GenTypeCons ==
    /\ Choosing("TypeCons")
    /\ LET c == TypeConsConstraints(Top.constraints)
       IN  \E n \in SelectDraws(c) :
             stack' = [stack EXCEPT ![Len(stack)] =
                          [@ EXCEPT !.pc = "TypeCons", !.data_type = select(c, n)]]
    /\ UNCHANGED <<depth, scope, ret>>
    /\ UNCHANGED aux

\* the arguments collected once the pending sub-call, if any, has returned
ArgsSoFar ==
    IF ret = NoNode THEN Top.args ELSE Append(Top.args, ret.data_type)

TypeConsArg ==
    /\ stack # <<>>
    /\ Top.pc = "TypeCons"
    /\ Len(ArgsSoFar) < TypeConsArity(Top.data_type)
    /\ stack' = Append([stack EXCEPT ![Len(stack)] = [@ EXCEPT !.args = ArgsSoFar]],
                       Frame(TypeConsArgConstraints(Top.data_type), depth, scope))
    /\ ret' = NoNode
    /\ UNCHANGED <<depth, scope>>
    /\ UNCHANGED aux

TypeConsReturn ==
    /\ stack # <<>>
    /\ Top.pc = "TypeCons"
    /\ Len(ArgsSoFar) >= TypeConsArity(Top.data_type)
    /\ ret' = Node("TypeCons", "None", "None", 0, Top.data_type, Top.constraints, ArgsSoFar)
    /\ stack' = Pop
    /\ UNCHANGED <<depth, scope>>
    /\ UNCHANGED aux

GenUnOp ==
    /\ Choosing("UnOp")
    /\ depth' = Enter(depth)
    /\ \E op \in Range(gen_un_op(Top.constraints)) :
         stack' = Append([stack EXCEPT ![Len(stack)] = [@ EXCEPT !.pc = "UnOp", !.op = op]],
                         Frame(UnOpConstraints(op, Top.constraints), Enter(depth), scope))
    /\ UNCHANGED <<scope, ret>>
    /\ UNCHANGED aux

UnOpReturn ==
    /\ stack # <<>>
    /\ Top.pc = "UnOp"
    /\ depth' = Leave(depth)
    /\ ret' = Node("UnOp", Top.op, "None", 0, UnOpDataType(ret.data_type),
                   Top.constraints, <<ret.data_type>>)
    /\ stack' = Pop
    /\ UNCHANGED scope
    /\ UNCHANGED aux

GenBinOp ==
    /\ Choosing("BinOp")
    /\ depth < MaxBinDepth
    /\ depth' = Enter(depth)
    /\ \E op \in Range(gen_bin_op(Top.constraints)) \cap RngBinOps(Len(stack) = 1) :
         stack' = Append([stack EXCEPT ![Len(stack)] = [@ EXCEPT !.pc = "BinOpL", !.op = op]],
                         Frame(BinOpLConstraints(op, Top.constraints), Enter(depth), scope))
    /\ UNCHANGED <<scope, ret>>
    /\ UNCHANGED aux

BinOpLeftReturn ==
    /\ stack # <<>>
    /\ Top.pc = "BinOpL"
    /\ stack' = Append([stack EXCEPT ![Len(stack)] =
                           [@ EXCEPT !.pc = "BinOpR", !.l = ret.data_type]],
                       Frame(BinOpRConstraints(Top.op, ret.data_type), depth, scope))
    /\ ret' = NoNode
    /\ UNCHANGED <<depth, scope>>
    /\ UNCHANGED aux

BinOpReturn ==
    /\ stack # <<>>
    /\ Top.pc = "BinOpR"
    /\ depth' = Leave(depth)
    /\ ret' = Node("BinOp", Top.op, "None", 0, BinOpDataType(Top.l, ret.data_type),
                   Top.constraints, <<Top.l, ret.data_type>>)
    /\ stack' = Pop
    /\ UNCHANGED scope
    /\ UNCHANGED aux

Next ==
    \/ \E t \in ScopeTypes : Insert(t)
    \/ \E c \in CallConstraints : Call(c)
    \/ GenLit
    \/ GenVar
    \/ GenTypeCons
    \/ TypeConsArg
    \/ TypeConsReturn
    \/ GenUnOp
    \/ UnOpReturn
    \/ GenBinOp
    \/ BinOpLeftReturn
    \/ BinOpReturn

Spec == Init /\ [][Next]_vars

(***************************************************************************)
(* Properties                                                              *)
(***************************************************************************)
Returned == ret # NoNode

IntElem == {"I32", "U32"}

\* the variants a constraint set admits
Members(c) == {d \in DataType : intersects(c, into(d))}

\* the variants of a constraint set, read off the variants themselves
ScalarSet == {d \in DataType : d.tag = "Scalar"}

VecSet == {d \in DataType : d.tag = "Vector"}

VecIntSet == {d \in VecSet : d.t \in IntElem}

\* the admission table of gen_expr
Admitted(c, d, sc) ==
    LET m == Members(c)
    IN  {k \in {"Lit", "TypeCons", "UnOp", "BinOp", "Var"} :
            \/ k = "Lit" /\ m \cap ScalarSet # {}
            \/ k = "TypeCons" /\ m \cap VecSet # {}
            \/ k = "UnOp" /\ d < 5
            \/ k = "BinOp" /\ d < 5 /\ m \cap (ScalarSet \cup VecIntSet) # {}
            \/ k = "Var" /\ d < 5 /\ \E i \in 1..Len(sc) : sc[i] \in m}

\* the production an activation has chosen
KindOf(pc) == IF pc \in {"BinOpL", "BinOpR"} THEN "BinOp" ELSE pc

OpFrames == {i \in 1..Len(stack) : stack[i].pc \in {"UnOp", "BinOpL", "BinOpR"}}

TypeConsFrames == {i \in 1..Len(stack) : stack[i].pc = "TypeCons"}

\* C1: the type of every node gen_expr returns is a member of the constraints
\* it was called with; under constraints = Bool the node has type Scalar(Bool)
\* and is no TypeCons, Neg, BitNot, arithmetic, bitwise or shift node.
ResultTypeInConstraints ==
    Returned =>
        /\ ret.data_type \in Members(ret.constraints)
        /\ ret.constraints = TCBool =>
              /\ ret.data_type = Scalar("Bool")
              /\ ret.kind # "TypeCons"
              /\ ret.op \notin ({"Neg", "BitNot"} \cup Range(ArithOps))

W_ResultTypeInConstraints ==
    /\ Returned
    /\ ret.constraints = TCBool
    /\ ret.kind = "BinOp"
    /\ ret.op = "LogAnd"

\* C2: the depth counter stays within 0..MAX_EXPR_DEPTH.
DepthWithinCap == depth \in 0..5

W_DepthWithinCap == depth = 5 /\ stack # <<>> /\ Top.pc = "choose"

\* C3 as stated: no node of a generated expression has more than
\* MAX_EXPR_DEPTH enclosing non-leaf nodes, TypeCons nodes counted.
\* The activations below a node's own are its enclosing non-leaf nodes.
NestingWithinCap == Len(stack) - 1 <= 5

\* C3 amended: a root-to-leaf path holds at most MAX_EXPR_DEPTH UnOp and BinOp
\* nodes and at most one TypeCons node, so at most MAX_EXPR_DEPTH + 1 non-leaf
\* nodes enclose any node.
NestingWithinCapPlusTypeCons ==
    /\ Cardinality(OpFrames) <= 5
    /\ Cardinality(TypeConsFrames) <= 1
    /\ Len(stack) - 1 <= 5 + 1

W_NestingWithinCapPlusTypeCons ==
    /\ Len(stack) - 1 = 6
    /\ Cardinality(OpFrames) = 5
    /\ Cardinality(TypeConsFrames) = 1

\* C4: the productions gen_expr chooses among are exactly those of the
\* admission table, and the production chosen is one of them.
AdmissionTable ==
    /\ \A i \in 1..Len(stack) :
          stack[i].pc # "choose" => KindOf(stack[i].pc) \in Range(stack[i].allowed)
    /\ (stack # <<>> /\ Top.pc = "choose") =>
          Range(Top.allowed) = Admitted(Top.constraints, depth, scope)
    /\ ret.kind \in {"Lit", "Var"} => ret.kind \in Admitted(ret.constraints, depth, scope)

W_AdmissionTable ==
    /\ stack # <<>>
    /\ Top.pc = "choose"
    /\ Range(Top.allowed) = {"TypeCons", "UnOp", "BinOp", "Var"}

\* C5: in every shift node the left operand has an integer element type and
\* the right operand is U32 for a scalar left operand, vecN<U32> of the same
\* N for a vector left operand.
ShiftTyping ==
    (ret.kind = "BinOp" /\ ret.op \in {"LShift", "RShift"}) =>
        LET l == ret.operands[1]
            r == ret.operands[2]
        IN  /\ l.t \in IntElem
            /\ l.tag = "Scalar" => r = Scalar("U32")
            /\ l.tag = "Vector" => r = Vector(l.n, "U32")

W_ShiftTyping ==
    /\ ret.kind = "BinOp"
    /\ ret.op = "RShift"
    /\ ret.operands[1] = Vector(3, "I32")
    /\ ret.operands[2] = Vector(3, "U32")

\* C6: in every BinOp node that is no shift both operands and the node have
\* one type; it is an I32/U32 scalar or vector for the arithmetic and bitwise
\* operators and Scalar(Bool) for LogAnd and LogOr.
BinOpTyping ==
    (ret.kind = "BinOp" /\ ret.op \notin {"LShift", "RShift"}) =>
        LET l == ret.operands[1]
            r == ret.operands[2]
        IN  /\ r = l
            /\ ret.data_type = l
            /\ ret.op \in {"Plus", "Minus", "Times", "Divide", "Mod",
                           "BitAnd", "BitOr", "BitXOr"} => l.t \in IntElem
            /\ ret.op \in {"LogAnd", "LogOr"} => l = Scalar("Bool")

W_BinOpTyping ==
    /\ ret.kind = "BinOp"
    /\ ret.op = "BitXOr"
    /\ ret.operands = <<Vector(4, "I32"), Vector(4, "I32")>>

\* C7: a UnOp node has its operand's type; Neg is chosen only under
\* constraints that admit I32 or a vecN<I32> and its operand is one of these,
\* Not likewise for Bool, BitNot likewise for I32 and U32.
UnOpTyping ==
    ret.kind = "UnOp" =>
        LET e == ret.operands[1]
            adm == {d.t : d \in Members(ret.constraints)}
        IN  /\ ret.data_type = e
            /\ ret.op = "Neg" => ("I32" \in adm /\ e.t = "I32")
            /\ ret.op = "Not" => ("Bool" \in adm /\ e.t = "Bool")
            /\ ret.op = "BitNot" => (adm \cap IntElem # {} /\ e.t \in IntElem)

W_UnOpTyping ==
    /\ ret.kind = "UnOp"
    /\ ret.op = "Neg"
    /\ ret.operands[1] = Vector(2, "I32")
    /\ ret.constraints = TCVecI32

\* C8: a TypeCons node has a type vecN<T> of its constraints, N in 2..4,
\* and exactly N arguments, each of type Scalar(T); a Lit node has a scalar
\* type.
TypeConsShape ==
    /\ ret.kind = "TypeCons" =>
          /\ ret.data_type \in VecSet \cap Members(ret.constraints)
          /\ ret.data_type.n \in {2, 3, 4}
          /\ Len(ret.operands) = ret.data_type.n
          /\ \A i \in 1..Len(ret.operands) : ret.operands[i] = Scalar(ret.data_type.t)
    /\ ret.kind = "Lit" => ret.data_type \in ScalarSet

W_TypeConsShape ==
    /\ ret.kind = "TypeCons"
    /\ ret.data_type = Vector(4, "Bool")
    /\ Len(ret.operands) = 4

\* a call of gen_expr(VecI32) made at depth 0 with an empty scope has returned
ReturnedS3 ==
    /\ Returned
    /\ stack = <<>>
    /\ scope = <<>>
    /\ ret.constraints = TCVecI32

\* C9 as stated: gen_expr(VecI32) at depth 0 with an empty scope returns a
\* TypeCons(Vector(N, I32), args) node with every argument of type Scalar(I32).
S3ReturnsTypeCons ==
    ReturnedS3 =>
        /\ ret.kind = "TypeCons"
        /\ ret.data_type \in {Vector(n, "I32") : n \in {2, 3, 4}}
        /\ \A i \in 1..Len(ret.operands) : ret.operands[i] = Scalar("I32")

\* C9 amended: gen_expr(VecI32) at depth 0 with an empty scope returns a node
\* of type Vector(N, I32), N in 2..4, that is a TypeCons with N arguments of
\* type Scalar(I32), or a Neg or BitNot node, or an arithmetic, bitwise or
\* shift node.
S3ReturnsVecI32 ==
    ReturnedS3 =>
        /\ ret.data_type \in {Vector(n, "I32") : n \in {2, 3, 4}}
        /\ \/ /\ ret.kind = "TypeCons"
              /\ Len(ret.operands) = ret.data_type.n
              /\ \A i \in 1..Len(ret.operands) : ret.operands[i] = Scalar("I32")
           \/ ret.kind = "UnOp" /\ ret.op \in {"Neg", "BitNot"}
           \/ ret.kind = "BinOp" /\ ret.op \in Range(ArithOps)

W_S3ReturnsVecI32 ==
    /\ ReturnedS3
    /\ ret.kind = "TypeCons"
    /\ ret.operands = <<Scalar("I32"), Scalar("I32"), Scalar("I32")>>

\* C10: a Var node names a binding of the scope and has the type the binding
\* was declared with.
VarBound ==
    ret.kind = "Var" =>
        /\ ret.name \in 1..Len(scope)
        /\ ret.data_type = scope[ret.name]

W_VarBound ==
    /\ ret.kind = "Var"
    /\ ret.data_type = Vector(2, "I32")
    /\ depth > 0

\* C17: no fatal error is reachable inside gen_expr: at every call, nested
\* ones included, the constraints are non-empty, the list of allowed
\* productions is non-empty, the operator list of gen_un_op (gen_bin_op) is
\* non-empty when UnOp (BinOp) is admitted, the sets handed to select by the
\* Lit and TypeCons arms are non-empty when the arm is admitted and select
\* returns a variant, and the Var arm has a binding to choose when admitted
NoFatalError ==
    /\ stack # <<>> /\ Top.pc = "choose" =>
          LET c == Top.constraints
              allowed == Range(Top.allowed)
          IN  /\ c # 0
              /\ allowed # {}
              /\ "UnOp" \in allowed => gen_un_op(c) # <<>>
              /\ "BinOp" \in allowed => gen_bin_op(c) # <<>>
              /\ "Lit" \in allowed => LitConstraints(c) # 0
              /\ "TypeCons" \in allowed => TypeConsConstraints(c) # 0
              /\ "Var" \in allowed => VarCandidates(scope, c) # {}
    /\ \A i \in TypeConsFrames : stack[i].data_type \in DataType
    /\ Returned => ret.data_type \in DataType

\* the right operand of a shift is being generated under u32 alone, with
\* UnOp and BinOp admitted
W_NoFatalError ==
    /\ Len(stack) = 2
    /\ stack[1].pc = "BinOpR"
    /\ stack[1].op = "LShift"
    /\ Top.pc = "choose"
    /\ Top.constraints = TCU32
    /\ {"UnOp", "BinOp"} \subseteq Range(Top.allowed)

\* C18: stepping out of a gen_expr call leaves depth at the value it had when
\* the call was entered, and between two expressions depth is 0
DepthRestored ==
    /\ [](stack = <<>> => depth = 0)
    /\ [][Len(stack') < Len(stack) => depth' = Top.entry]_vars

\* a UnOp call entered at depth 2 has returned to its caller, a UnOp call
\* entered at depth 1 whose arm holds depth at 2
W_DepthRestored ==
    /\ Returned
    /\ ret.kind = "UnOp"
    /\ stack # <<>>
    /\ Top.pc = "UnOp"
    /\ Top.entry = 1
    /\ depth = 2

\* the steps a call under scalar-only constraints can still take at depth d
RECURSIVE CostScalarAt(_)
CostScalarAt(d) == IF d >= MAX_EXPR_DEPTH THEN 1 ELSE 3 + 2 * CostScalarAt(d + 1)

\* the largest number of arguments of a TypeCons
MaxArity == CHOOSE n \in VecSizes : \A m \in VecSizes : m <= n

\* the steps a call under constraints that admit a vector can still take
RECURSIVE CostVectorAt(_)
CostVectorAt(d) ==
    LET cons == 2 + MaxArity * (1 + CostScalarAt(d))
        op == 3 + 2 * CostVectorAt(d + 1)
    IN  IF d >= MAX_EXPR_DEPTH THEN cons
        ELSE IF cons > op THEN cons ELSE op

\* the two bounds, tabulated over the depths 0 .. MAX_EXPR_DEPTH
CostScalarTable == [d \in 0..MAX_EXPR_DEPTH |-> CostScalarAt(d)]

CostVectorTable == [d \in 0..MAX_EXPR_DEPTH |-> CostVectorAt(d)]

CostScalar(d) == CostScalarTable[IF d > MAX_EXPR_DEPTH THEN MAX_EXPR_DEPTH ELSE d]

CostVector(d) == CostVectorTable[IF d > MAX_EXPR_DEPTH THEN MAX_EXPR_DEPTH ELSE d]

\* no vector variant is admitted: the scalars are the lowest bits of a mask
ScalarOnly(c) == c <= TCScalar

Cost(c, d) == IF ScalarOnly(c) THEN CostScalar(d) ELSE CostVector(d)

\* the steps activation i can still take, those of the sub-calls it has
\* started excluded
FrameRank(i) ==
    LET f == stack[i]
        started == IF i = Len(stack) THEN Len(ArgsSoFar) ELSE Len(f.args) + 1
    IN  CASE f.pc = "choose" -> Cost(f.constraints, f.entry)
          [] f.pc = "UnOp" -> 1
          [] f.pc = "BinOpL" -> 2 + Cost(f.constraints, f.entry + 1)
          [] f.pc = "BinOpR" -> 1
          [] f.pc = "TypeCons" ->
               1 + (TypeConsArity(f.data_type) - started) * (1 + CostScalar(f.entry))

RECURSIVE RankUpTo(_)
RankUpTo(i) == IF i = 0 THEN 0 ELSE FrameRank(i) + RankUpTo(i - 1)

\* a bound on the steps left until the outermost call returns
Rank == RankUpTo(Len(stack))

\* C19: every gen_expr call terminates: the activations above a TypeCons
\* activation run under scalar-only constraints and do not admit TypeCons,
\* and every step of a running call decreases Rank, a natural number
Terminates ==
    /\ [](\A i \in TypeConsFrames : \A j \in (i + 1)..Len(stack) :
              /\ ScalarOnly(stack[j].constraints)
              /\ "TypeCons" \notin Range(stack[j].allowed))
    /\ [](Rank \in Nat)
    /\ [][stack # <<>> => Rank' < Rank]_vars

\* a top-level call for a vector that took the UnOp production has returned:
\* no step is left
W_Terminates ==
    /\ stack = <<>>
    /\ Returned
    /\ ret.kind = "UnOp"
    /\ ret.data_type.tag = "Vector"
    /\ Rank = 0

(***************************************************************************)
(* Two runs of one seed                                                    *)
(*                                                                         *)
(* Two generators built from the same seed, options and scope run side by  *)
(* side.  A draw from the seeded RNG returns the same value in both, so    *)
(* one choice stands for both runs.  TypeConstraints::select draws from    *)
(* rand::thread_rng(), which the seed does not determine: the second run's *)
(* draw is a choice of its own.  `sel` holds the types the two runs' last  *)
(* select returned; the first run's is the one the generator goes on with. *)
(***************************************************************************)
\* the indices the second run's thread_rng can draw when the first drew n
thread_rng(c, n) == SelectDraws(c)

DetGenLit ==
    /\ Choosing("Lit")
    /\ LET c == LitConstraints(Top.constraints)
       IN  \E n \in SelectDraws(c) : \E m \in thread_rng(c, n) :
             LET t == select(c, n)
             IN  /\ ret' = Node("Lit", "None", LitOf(t), 0, t, Top.constraints, <<>>)
                 /\ sel' = <<t, select(c, m)>>
    /\ stack' = Pop
    /\ UNCHANGED <<depth, scope>>
    /\ UNCHANGED <<tc, visit, recond, reduce, gpu>>

DetGenTypeCons ==
    /\ Choosing("TypeCons")
    /\ LET c == TypeConsConstraints(Top.constraints)
       IN  \E n \in SelectDraws(c) : \E m \in thread_rng(c, n) :
             /\ stack' = [stack EXCEPT ![Len(stack)] =
                            [@ EXCEPT !.pc = "TypeCons", !.data_type = select(c, n)]]
             /\ sel' = <<select(c, n), select(c, m)>>
    /\ UNCHANGED <<depth, scope, ret>>
    /\ UNCHANGED <<tc, visit, recond, reduce, gpu>>

NextDet ==
    \/ \E t \in ScopeTypes : Insert(t)
    \/ \E c \in CallConstraints : Call(c)
    \/ DetGenLit
    \/ GenVar
    \/ DetGenTypeCons
    \/ TypeConsArg
    \/ TypeConsReturn
    \/ GenUnOp
    \/ UnOpReturn
    \/ GenBinOp
    \/ BinOpLeftReturn
    \/ BinOpReturn

SpecDet == Init /\ [][NextDet]_vars

\* C11: two runs started from the same seed, options and scope make the same
\* choices: whenever both have drawn a concrete type with select, they have
\* drawn the same type
SeedDeterminism == sel[1] = sel[2]

(***************************************************************************)
(* The algebra of TypeConstraints (src/types.rs), applied to constraint    *)
(* sets drawn from Masks.  `tc` holds the operands a, b, c, the operation  *)
(* applied last (pc), its mask result r, and for select the drawn index n  *)
(* and the variant t returned.                                             *)
(***************************************************************************)
Masks == 0..(Pow2(MaskBits) - 1)

InitTC ==
    /\ depth = 0
    /\ scope = <<>>
    /\ stack = <<>>
    /\ ret = NoNode
    /\ sel = NoSel
    /\ \E a \in Masks, b \in Masks, c \in Masks :
         tc = [pc |-> "args", a |-> a, b |-> b, c |-> c, r |-> 0, n |-> 0, t |-> NoType]
    /\ visit = Idle
    /\ recond = Idle
    /\ reduce = Idle
    /\ gpu = Idle

\* a.union(b)
Union ==
    /\ tc.pc = "args"
    /\ tc' = [tc EXCEPT !.pc = "union", !.r = union(tc.a, tc.b)]
    /\ UNCHANGED <<genVars, sel, visit, recond, reduce, gpu>>

\* a.intersection(b)
Intersection ==
    /\ tc.pc = "args"
    /\ tc' = [tc EXCEPT !.pc = "intersection", !.r = intersection(tc.a, tc.b)]
    /\ UNCHANGED <<genVars, sel, visit, recond, reduce, gpu>>

\* a.select(), on a non-empty set (debug_assert_ne!(self.0, 0))
Select ==
    /\ tc.pc = "args"
    /\ tc.a # 0
    /\ \E n \in SelectDraws(tc.a) :
         tc' = [tc EXCEPT !.pc = "select", !.n = n, !.t = select(tc.a, n)]
    /\ UNCHANGED <<genVars, sel, visit, recond, reduce, gpu>>

NextTC ==
    \/ Union
    \/ Intersection
    \/ Select

SpecTC == InitTC /\ [][NextTC]_vars

\* the variants of a mask, read off its bits
HasBit(a, i) == (a \div Pow2(i)) % 2 = 1

BitsOf(a) == {i \in 0..(MaskBits - 1) : HasBit(a, i)}

VariantsOf(a) == {TypeOfBit(i) : i \in BitsOf(a)}

\* None is the empty set
AsSet(r) == BitsOf(r)

\* C12: union and intersection are commutative, associative and idempotent
\* on all constraint sets, their results are the set union and the set
\* intersection of the operands' variants, and intersection is empty (None)
\* exactly when the operands share no variant
UnionIntersectionLaws ==
    LET a == tc.a
        b == tc.b
        c == tc.c
    IN  /\ union(a, b) = union(b, a)
        /\ union(union(a, b), c) = union(a, union(b, c))
        /\ union(a, a) = a
        /\ intersection(a, b) = intersection(b, a)
        /\ intersection(intersection(a, b), c) = intersection(a, intersection(b, c))
        /\ intersection(a, a) = a
        /\ (intersection(a, b) = 0) <=> (BitsOf(a) \cap BitsOf(b) = {})
        /\ tc.pc = "union" => AsSet(tc.r) = BitsOf(a) \cup BitsOf(b)
        /\ tc.pc = "intersection" => AsSet(tc.r) = BitsOf(a) \cap BitsOf(b)

\* two non-empty sets without a common variant have been intersected
W_UnionIntersectionLaws ==
    /\ tc.pc = "intersection"
    /\ tc.a # 0
    /\ tc.b # 0
    /\ tc.r = 0

\* the n-th set bit of a mask in canonical order, counted from 0
NthBit(a, n) ==
    CHOOSE k \in BitsOf(a) : Cardinality({j \in BitsOf(a) : j < k}) = n

\* C13: on a non-empty set c, select returns for the drawn index n the n-th
\* variant of c in canonical order, a member of c, and the map from
\* 0..popcount(c)-1 to the returned variant is one-to-one and onto the
\* members of c
SelectBijection ==
    LET c == tc.a
        image == {select(c, n) : n \in SelectDraws(c)}
    IN  c # 0 =>
          /\ Cardinality(BitsOf(c)) = count_ones(c)
          /\ \A n \in SelectDraws(c) :
                /\ select(c, n) \in VariantsOf(c)
                /\ select(c, n) = TypeOfBit(NthBit(c, n))
          /\ \A n \in SelectDraws(c), m \in SelectDraws(c) :
                select(c, n) = select(c, m) => n = m
          /\ image = VariantsOf(c)
          /\ tc.pc = "select" => tc.t \in VariantsOf(c)

\* the last of three variants has been selected
W_SelectBijection ==
    /\ tc.pc = "select"
    /\ count_ones(tc.a) = 3
    /\ tc.n = 2
    /\ tc.t = Scalar("U32")

(***************************************************************************)
(* remove_accessed_vars (harness/crates/harness/src/utils.rs): the pass    *)
(* that removes from a set of names every name a function body accesses.   *)
(*                                                                         *)
(* AST nodes are records with a tag; an absent Option is None.             *)
(***************************************************************************)
None == [tag |-> "None"]

Lit == [tag |-> "Lit"]

Var(ident) == [tag |-> "Var", ident |-> ident]

TypeCons(args) == [tag |-> "TypeCons", args |-> args]

UnOp(e) == [tag |-> "UnOp", expr |-> e]

BinOp(l, r) == [tag |-> "BinOp", left |-> l, right |-> r]

FnCall(args) == [tag |-> "FnCall", args |-> args]

Postfix(e, postfix) == [tag |-> "Postfix", expr |-> e, postfix |-> postfix]

ArrayIndex(index) == [tag |-> "ArrayIndex", index |-> index]

Member == [tag |-> "Member"]

Phony == [tag |-> "Phony"]

LhsIdent(ident) == [tag |-> "Ident", ident |-> ident]

LhsExpr(node) == [tag |-> "Expr", expr |-> node]

LetDecl(ident, e) == [tag |-> "LetDecl", ident |-> ident, initializer |-> e]

VarDecl(ident, e) == [tag |-> "VarDecl", ident |-> ident, initializer |-> e]

Assignment(lhs, rhs) == [tag |-> "Assignment", lhs |-> lhs, rhs |-> rhs]

Compound(stmts) == [tag |-> "Compound", stmts |-> stmts]

If(condition, body, else_) ==
    [tag |-> "If", condition |-> condition, body |-> body, else_ |-> else_]

ElseIf(condition, body, else_) ==
    [tag |-> "ElseIf", condition |-> condition, body |-> body, else_ |-> else_]

Else(body) == [tag |-> "Else", body |-> body]

Return(value) == [tag |-> "Return", value |-> value]

Loop(body) == [tag |-> "Loop", body |-> body]

Break == [tag |-> "Break"]

SwitchCase(body) == [body |-> body]

Switch(selector, cases, default) ==
    [tag |-> "Switch", selector |-> selector, cases |-> cases, default |-> default]

ForLoop(init, condition, update, body) ==
    [tag |-> "ForLoop", init |-> init, condition |-> condition,
     update |-> update, body |-> body]

FnDecl(body) == [body |-> body]

RECURSIVE visit_expr(_, _)
RECURSIVE visit_exprs(_, _)
RECURSIVE visit_lhs_expr(_, _)
RECURSIVE visit_stmt(_, _)
RECURSIVE visit_stmts(_, _)
RECURSIVE visit_else(_, _)
RECURSIVE visit_cases(_, _)

\* mutant: an array index is not visited
visit_postfix_member(vars_, postfix) == vars_

visit_postfix(vars_, postfix) ==
    IF postfix.tag = "ArrayIndex" THEN visit_expr(vars_, postfix.index) ELSE vars_

visit_expr(vars_, node) ==
    CASE node.tag = "Lit" -> vars_
      [] node.tag = "TypeCons" -> visit_exprs(vars_, node.args)
      [] node.tag = "Var" -> vars_ \ {node.ident}
      [] node.tag = "Postfix" ->
           visit_postfix(visit_expr(vars_, node.expr), node.postfix)
      [] node.tag = "UnOp" -> visit_expr(vars_, node.expr)
      [] node.tag = "BinOp" -> visit_expr(visit_expr(vars_, node.left), node.right)
      [] node.tag = "FnCall" -> visit_exprs(vars_, node.args)

\* for e in args { visit_expr(vars, e) }
visit_exprs(vars_, es) ==
    IF es = <<>> THEN vars_ ELSE visit_exprs(visit_expr(vars_, Head(es)), Tail(es))

\* mutant: the target identifier of a left-hand side stays in the set
visit_lhs_ident_keep(vars_, ident) == vars_

\* LhsExpr::Ident(ident) => vars.remove(ident)
visit_lhs_ident(vars_, ident) == vars_ \ {ident}

visit_lhs_expr(vars_, node) ==
    IF node.tag = "Ident"
    THEN visit_lhs_ident(vars_, node.ident)
    ELSE visit_postfix(visit_lhs_expr(vars_, node.expr), node.postfix)

\* the Assignment arm, shared by the statement and the for-loop update
visit_assignment(vars_, stmt) ==
    visit_expr(IF stmt.lhs.tag = "Phony" THEN vars_
                                         ELSE visit_lhs_expr(vars_, stmt.lhs.expr),
               stmt.rhs)

\* if let Some(e) = ... { visit_expr(vars, e) }
visit_opt_expr(vars_, e) == IF e = None THEN vars_ ELSE visit_expr(vars_, e)

\* the header of a for loop: init, condition, update
visit_header(vars_, stmt) ==
    LET v1 == IF stmt.init = None THEN vars_
              ELSE visit_opt_expr(vars_, stmt.init.initializer)
        v2 == visit_opt_expr(v1, stmt.condition)
    IN  IF stmt.update = None THEN v2 ELSE visit_assignment(v2, stmt.update)

visit_stmt(vars_, stmt) ==
    CASE stmt.tag = "LetDecl" -> visit_expr(vars_, stmt.initializer)
      [] stmt.tag = "VarDecl" -> visit_opt_expr(vars_, stmt.initializer)
      [] stmt.tag = "Assignment" -> visit_assignment(vars_, stmt)
      [] stmt.tag = "Compound" -> visit_stmts(vars_, stmt.stmts)
      [] stmt.tag = "If" ->
           visit_else(visit_stmts(visit_expr(vars_, stmt.condition), stmt.body),
                      stmt.else_)
      [] stmt.tag = "Return" -> visit_opt_expr(vars_, stmt.value)
      [] stmt.tag = "Loop" -> visit_stmts(vars_, stmt.body)
      [] stmt.tag = "Break" -> vars_
      [] stmt.tag = "Switch" ->
           visit_stmts(visit_cases(visit_expr(vars_, stmt.selector), stmt.cases),
                       stmt.default)
      [] stmt.tag = "ForLoop" -> visit_stmts(visit_header(vars_, stmt), stmt.body)

\* for stmt in body { visit_stmt(vars, stmt) }
visit_stmts(vars_, stmts) ==
    IF stmts = <<>> THEN vars_
    ELSE visit_stmts(visit_stmt(vars_, Head(stmts)), Tail(stmts))

\* while let Some(e) = else_ { ... }
visit_else(vars_, e) ==
    CASE e = None -> vars_
      [] e.tag = "ElseIf" ->
           visit_else(visit_stmts(visit_expr(vars_, e.condition), e.body), e.else_)
      [] e.tag = "Else" -> visit_stmts(vars_, e.body)

\* for case in &stmt.cases { for stmt in &case.body { ... } }
visit_cases(vars_, cases) ==
    IF cases = <<>> THEN vars_
    ELSE visit_cases(visit_stmts(vars_, Head(cases).body), Tail(cases))

\* the names of the candidate set and of the modules scanned
Idents == {"a", "b", "c"}

\* the expressions a leaf sits in: bare, and nested inside TypeCons, UnOp,
\* BinOp (either side), FnCall arguments, an array index and a member access
Wrappers(leaf) ==
    << leaf,
       TypeCons(<<Lit, leaf>>),
       UnOp(leaf),
       BinOp(leaf, Lit),
       BinOp(Lit, leaf),
       FnCall(<<leaf, Lit>>),
       Postfix(Lit, ArrayIndex(leaf)),
       Postfix(leaf, Member),
       UnOp(BinOp(Lit, TypeCons(<<FnCall(<<Postfix(Lit, ArrayIndex(leaf))>>)>>))) >>

\* the statements an expression e sits in, one per position of a statement
\* form; x is the name assigned to where the form has a left-hand side
Contexts(e, x) ==
    << LetDecl("c", e),
       VarDecl("c", e),
       Assignment(Phony, e),
       Compound(<<Break, LetDecl("c", e)>>),
       If(e, <<>>, None),
       If(Lit, <<LetDecl("c", e)>>, None),
       If(Lit, <<>>, ElseIf(e, <<>>, None)),
       If(Lit, <<>>, ElseIf(Lit, <<LetDecl("c", e)>>, None)),
       If(Lit, <<>>, ElseIf(Lit, <<>>, ElseIf(e, <<>>, None))),
       If(Lit, <<>>, ElseIf(Lit, <<>>, Else(<<LetDecl("c", e)>>))),
       If(Lit, <<>>, Else(<<LetDecl("c", e)>>)),
       Return(e),
       Loop(<<LetDecl("c", e)>>),
       Switch(e, <<>>, <<>>),
       Switch(Lit, <<SwitchCase(<<>>), SwitchCase(<<LetDecl("c", e)>>)>>, <<>>),
       Switch(Lit, <<SwitchCase(<<Break>>)>>, <<LetDecl("c", e)>>),
       ForLoop(VarDecl("c", e), None, None, <<>>),
       ForLoop(None, e, None, <<>>),
       ForLoop(None, None, Assignment(Phony, e), <<>>),
       ForLoop(None, None, None, <<LetDecl("c", e)>>),
       Assignment(LhsExpr(LhsIdent(x)), e),
       Assignment(LhsExpr(Postfix(LhsIdent(x), ArrayIndex(e))), Lit),
       Assignment(LhsExpr(Postfix(Postfix(LhsIdent(x), Member), ArrayIndex(e))), Lit),
       ForLoop(None, None, Assignment(LhsExpr(LhsIdent(x)), e), <<>>),
       ForLoop(None, None,
               Assignment(LhsExpr(Postfix(LhsIdent(x), ArrayIndex(e))), Lit), <<>>) >>

NumContexts == Len(Contexts(Lit, "a"))

\* the contexts that assign to x
Assigning == 21..25

Leaves == {Lit} \cup {Var(n) : n \in Idents}

\* a module of two functions: the first holds the statement under scan, the
\* second a return
ModuleOf(stmt, r) ==
    [functions |-> << FnDecl(<<VarDecl("c", None), stmt>>), FnDecl(<<Return(r)>>) >>]

NamesOf(e) == IF e.tag = "Var" THEN {e.ident} ELSE {}

\* `visit` holds the module, the position of the two loops of
\* remove_accessed_vars (function f, statement i), the set `vars` and its
\* initial value, and what the module was built from: the names it reads,
\* assigns to and declares, the context k and the wrapper j
InitVisit ==
    /\ depth = 0
    /\ scope = <<>>
    /\ stack = <<>>
    /\ ret = NoNode
    /\ sel = NoSel
    /\ tc = Idle
    /\ \E k \in 1..NumContexts, leaf \in Leaves, r \in {None, Var("a")},
          vars0 \in SUBSET Idents :
         \E j \in 1..Len(Wrappers(leaf)),
            x \in (IF k \in Assigning THEN Idents ELSE {"a"}) :
           visit = [pc |-> "visiting",
                    module |-> ModuleOf(Contexts(Wrappers(leaf)[j], x)[k], r),
                    f |-> 1, i |-> 1, vars |-> vars0, vars0 |-> vars0,
                    read |-> NamesOf(leaf) \cup NamesOf(r),
                    written |-> IF k \in Assigning THEN {x} ELSE {},
                    declared |-> {"c"},
                    k |-> k, j |-> j]
    /\ recond = Idle
    /\ reduce = Idle
    /\ gpu = Idle

\* visit_stmt(vars, stmt) for the next statement of the current function
VisitStmt ==
    /\ visit.pc = "visiting"
    /\ visit.f <= Len(visit.module.functions)
    /\ visit.i <= Len(visit.module.functions[visit.f].body)
    /\ visit' = [visit EXCEPT
                   !.vars = visit_stmt(@, visit.module.functions[visit.f].body[visit.i]),
                   !.i = @ + 1]
    /\ UNCHANGED <<genVars, sel, tc, recond, reduce, gpu>>

\* the body of the current function is exhausted
NextFunction ==
    /\ visit.pc = "visiting"
    /\ visit.f <= Len(visit.module.functions)
    /\ visit.i > Len(visit.module.functions[visit.f].body)
    /\ visit' = [visit EXCEPT !.f = @ + 1, !.i = 1]
    /\ UNCHANGED <<genVars, sel, tc, recond, reduce, gpu>>

\* remove_accessed_vars returns
VisitReturn ==
    /\ visit.pc = "visiting"
    /\ visit.f > Len(visit.module.functions)
    /\ visit' = [visit EXCEPT !.pc = "done"]
    /\ UNCHANGED <<genVars, sel, tc, recond, reduce, gpu>>

NextVisit ==
    \/ VisitStmt
    \/ NextFunction
    \/ VisitReturn

SpecVisit == InitVisit /\ [][NextVisit]_vars

\* C14: after remove_accessed_vars the set holds no name the module reads,
\* whatever statement form and expression the read sits in, and a name of
\* the initial set that occurs nowhere in the module is still in the set
ReadVarsRemoved ==
    visit.pc = "done" =>
      /\ visit.vars \cap visit.read = {}
      /\ \A n \in visit.vars0 :
            n \notin (visit.read \cup visit.written \cup visit.declared)
              => n \in visit.vars

\* a name read in the body of the else-if of a chain, inside the array index
\* of a call argument, has been removed, and a name that occurs nowhere stays
W_ReadVarsRemoved ==
    /\ visit.pc = "done"
    /\ visit.k = 8
    /\ visit.j = 9
    /\ visit.read = {"b"}
    /\ visit.vars0 = {"a", "b"}
    /\ visit.vars = {"a"}

\* C15 as stated: a name that occurs only as the target identifier of an
\* assignment stays in the set
LhsTargetStays ==
    visit.pc = "done" =>
      \A n \in (visit.written \ visit.read) \cap visit.vars0 : n \in visit.vars

\* C15: the target identifier of an assignment (in a statement or in a
\* for-loop update) is removed from the set like a name that is read, and
\* so is a name read in an array index of the left-hand side: the set left
\* is the initial set without the names read or assigned to
LhsTargetRemoved ==
    visit.pc = "done" =>
      /\ visit.written \cap visit.vars = {}
      /\ visit.vars = visit.vars0 \ (visit.read \cup visit.written)

\* a name that is assigned to and never read has been removed
W_LhsTargetRemoved ==
    /\ visit.pc = "done"
    /\ visit.k = 21
    /\ visit.written = {"b"}
    /\ visit.read = {}
    /\ visit.vars0 = Idents
    /\ visit.vars = {"a", "c"}

(***************************************************************************)
(* The reconditioner, as the driver applies it (crates/wgslsmith/src/      *)
(* test.rs, recondition): a post-order rewrite of the module that replaces *)
(* integer division and remainder by calls to the SAFE_ helpers, masks the *)
(* amount of every shift with bitwidth - 1, and puts the helper functions  *)
(* at the top of the module when a rewrite has fired.                      *)
(***************************************************************************)
LitNode(v) == [tag |-> "Lit", value |-> v]

BinOpNode(op, l, r) == [tag |-> "BinOp", op |-> op, left |-> l, right |-> r]

FnCallNode(name, args) == [tag |-> "FnCall", name |-> name, args |-> args]

Helpers == <<"SAFE_DIV_I32", "SAFE_DIV_U32", "SAFE_MOD_I32", "SAFE_MOD_U32">>

ShiftBinOps == {"LShift", "RShift"}

\* the operators a rewrite is required for
Guarded == {"Divide", "Mod"} \cup ShiftBinOps

RECURSIVE recondition_expr(_)
recondition_expr(e) ==
    CASE e.tag = "BinOp" ->
           LET l == recondition_expr(e.left)
               r == recondition_expr(e.right)
           IN  CASE e.op = "Divide" -> FnCallNode("SAFE_DIV_I32", <<l, r>>)
                 [] e.op = "Mod" -> FnCallNode("SAFE_MOD_I32", <<l, r>>)
                 [] e.op \in ShiftBinOps ->
                      BinOpNode(e.op, l, BinOpNode("BitAnd", r, LitNode("31u")))
                 [] OTHER -> BinOpNode(e.op, l, r)
      [] e.tag = "FnCall" ->
           FnCallNode(e.name, [i \in DOMAIN e.args |-> recondition_expr(e.args[i])])
      [] OTHER -> e

\* whether a rewrite fires somewhere in e
RECURSIVE fires(_)
fires(e) ==
    CASE e.tag = "BinOp" -> e.op \in Guarded \/ fires(e.left) \/ fires(e.right)
      [] e.tag = "FnCall" -> \E i \in DOMAIN e.args : fires(e.args[i])
      [] OTHER -> FALSE

\* the helpers are put at the top of the module, once
inject(functions) ==
    IF \E i \in DOMAIN functions : functions[i] = Helpers[1]
    THEN functions
    ELSE Helpers \o functions

\* reconditioner::recondition(module)
recondition(m) ==
    [functions |-> IF fires(m.expr) THEN inject(m.functions) ELSE m.functions,
     expr |-> recondition_expr(m.expr)]

\* the expressions of the modules reconditioned: two levels of operators
ReOps == Guarded \cup {"Plus"}

ReLeaves == {LitNode("1"), Var("a")}

ReExprs1 == ReLeaves \cup {BinOpNode(op, l, r) : op \in ReOps, l \in ReLeaves, r \in ReLeaves}

ReExprs == ReExprs1 \cup {BinOpNode(op, l, r) : op \in ReOps, l \in ReExprs1, r \in ReExprs1}

\* `recond` holds the module parsed (m), and the results of one and of two
\* passes (m1, m2)
InitRecond ==
    /\ depth = 0
    /\ scope = <<>>
    /\ stack = <<>>
    /\ ret = NoNode
    /\ sel = NoSel
    /\ tc = Idle
    /\ visit = Idle
    /\ \E e \in ReExprs :
         LET m == [functions |-> <<"main">>, expr |-> e]
         IN  recond = [pc |-> "parsed", m |-> m, m1 |-> m, m2 |-> m]
    /\ reduce = Idle
    /\ gpu = Idle

Recondition ==
    /\ recond.pc = "parsed"
    /\ recond' = [recond EXCEPT !.pc = "once", !.m1 = recondition(recond.m)]
    /\ UNCHANGED <<genVars, sel, tc, visit, reduce, gpu>>

ReconditionAgain ==
    /\ recond.pc = "once"
    /\ recond' = [recond EXCEPT !.pc = "twice", !.m2 = recondition(recond.m1)]
    /\ UNCHANGED <<genVars, sel, tc, visit, reduce, gpu>>

NextRecond ==
    \/ Recondition
    \/ ReconditionAgain

SpecRecond == InitRecond /\ [][NextRecond]_vars

\* C16: reconditioning is idempotent: a second pass over a reconditioned
\* module returns it unchanged
ReconditionIdempotent == recond.pc = "twice" => recond.m2 = recond.m1

(***************************************************************************)
(* The interestingness test of a mismatch reduction (crates/wgslsmith/src/ *)
(* test.rs): run, reduce_mismatch and exec_for_mismatch.                   *)
(*                                                                         *)
(* `reduce` holds the position in run (pc), the harness, what the          *)
(* environment will answer (naga, tint: whether the validator accepts the  *)
(* source; exec: how the execution ends), the steps taken so far (log),    *)
(* the exit code observed, the value run returns and whether               *)
(* "interesting :)" has been printed.                                      *)
(***************************************************************************)
ExitCodes == 0..MaxExitCode

NoCode == -1

\* how an execution can end: it cannot be started or reached (the ? of
\* spawn, write, wait and exec_shader), a local child ends without an exit
\* code (code().unwrap() panics), or it exits with a code
ExecOutcomes(harness) ==
    {[kind |-> "error", code |-> NoCode]}
      \cup (IF harness = "Local" THEN {[kind |-> "signal", code |-> NoCode]} ELSE {})
      \cup {[kind |-> "exit", code |-> n] : n \in ExitCodes}

InitReduce ==
    /\ depth = 0
    /\ scope = <<>>
    /\ stack = <<>>
    /\ ret = NoNode
    /\ sel = NoSel
    /\ tc = Idle
    /\ visit = Idle
    /\ recond = Idle
    /\ \E harness \in {"Local", "Remote"}, naga \in BOOLEAN, tint \in BOOLEAN :
         \E exec \in ExecOutcomes(harness) :
           reduce = [pc |-> "reduce_mismatch", harness |-> harness, naga |-> naga,
                     tint |-> tint, exec |-> exec, log |-> <<>>, code |-> NoCode,
                     result |-> "none", printed |-> FALSE]
    /\ gpu = Idle

\* mutant: every non-zero exit code is interesting
is_mismatch_nonzero(code) == code # 0

\* exit_code == 1
is_mismatch(code) == code = 1

\* let module = parser::parse(&source); let reconditioned = recondition(module)
ReduceRecondition ==
    /\ reduce.pc = "reduce_mismatch"
    /\ reduce' = [reduce EXCEPT !.pc = "naga", !.log = Append(@, "recondition")]
    /\ UNCHANGED <<genVars, sel, tc, visit, recond, gpu>>

\* Compiler::Naga.validate(&reconditioned)?
ValidateNaga ==
    /\ reduce.pc = "naga"
    /\ reduce' = [reduce EXCEPT
                    !.log = Append(@, "naga"),
                    !.pc = IF reduce.naga THEN "tint" ELSE "returned",
                    !.result = IF reduce.naga THEN @ ELSE "Err: naga validation"]
    /\ UNCHANGED <<genVars, sel, tc, visit, recond, gpu>>

\* Compiler::Tint.validate(&reconditioned)?
ValidateTint ==
    /\ reduce.pc = "tint"
    /\ reduce' = [reduce EXCEPT
                    !.log = Append(@, "tint"),
                    !.pc = IF reduce.tint THEN "exec" ELSE "returned",
                    !.result = IF reduce.tint THEN @ ELSE "Err: tint validation"]
    /\ UNCHANGED <<genVars, sel, tc, visit, recond, gpu>>

\* exec_for_mismatch(&reconditioned, &metadata, server)?
ExecForMismatch ==
    /\ reduce.pc = "exec"
    /\ reduce' = [reduce EXCEPT
                    !.log = Append(@, "exec"),
                    !.code = reduce.exec.code,
                    !.pc = IF reduce.exec.kind = "exit" THEN "executed" ELSE "returned",
                    !.result = CASE reduce.exec.kind = "exit" -> @
                                 [] reduce.exec.kind = "error" -> "Err: execution"
                                 [] reduce.exec.kind = "signal" -> "panic"]
    /\ UNCHANGED <<genVars, sel, tc, visit, recond, gpu>>

\* if !exec_for_mismatch(..)? { return Err(eyre!("shader is not interesting")) }
NotInteresting ==
    /\ reduce.pc = "executed"
    /\ ~is_mismatch(reduce.code)
    /\ reduce' = [reduce EXCEPT !.pc = "returned",
                                !.result = "Err: shader is not interesting"]
    /\ UNCHANGED <<genVars, sel, tc, visit, recond, gpu>>

\* reduce_mismatch returns Ok(()); run prints "interesting :)" and returns Ok
Interesting ==
    /\ reduce.pc = "executed"
    /\ is_mismatch(reduce.code)
    /\ reduce' = [reduce EXCEPT !.pc = "returned", !.result = "Ok", !.printed = TRUE]
    /\ UNCHANGED <<genVars, sel, tc, visit, recond, gpu>>

NextReduce ==
    \/ ReduceRecondition
    \/ ValidateNaga
    \/ ValidateTint
    \/ ExecForMismatch
    \/ NotInteresting
    \/ Interesting

SpecReduce == InitReduce /\ [][NextReduce]_vars

\* whether the log is one of the prefixes of the order of reduce_mismatch
IsPrefix(s, t) == Len(s) <= Len(t) /\ \A i \in 1..Len(s) : s[i] = t[i]

\* C20: in a mismatch reduction the shader is reconditioned first, validated
\* by Naga, then by Tint, and executed last; it is executed only when both
\* validations have passed, a failed validation ends the run with an error;
\* the run returns Ok and prints "interesting :)" only when the exit code is
\* 1, and with any other exit code returns "shader is not interesting"
MismatchReduction ==
    LET executed == "exec" \in Range(reduce.log)
    IN  /\ IsPrefix(reduce.log, <<"recondition", "naga", "tint", "exec">>)
        /\ executed => reduce.naga /\ reduce.tint
        /\ reduce.pc = "returned" /\ (~reduce.naga \/ ~reduce.tint) =>
              /\ ~executed
              /\ reduce.result \in {"Err: naga validation", "Err: tint validation"}
        /\ reduce.printed <=> reduce.result = "Ok"
        /\ reduce.result = "Ok" => executed /\ reduce.code = 1
        /\ reduce.pc = "returned" /\ executed /\ reduce.code \in ExitCodes =>
              IF reduce.code = 1
              THEN reduce.result = "Ok"
              ELSE reduce.result = "Err: shader is not interesting"

\* a remote execution has exited with code 1 after both validations
W_MismatchReduction ==
    /\ reduce.pc = "returned"
    /\ reduce.harness = "Remote"
    /\ reduce.log = <<"recondition", "naga", "tint", "exec">>
    /\ reduce.code = 1
    /\ reduce.result = "Ok"
    /\ reduce.printed

(***************************************************************************)
(* The GPU harness (harness/src/dawn.rs): run compiles the shader, encodes *)
(* one compute pass and a copy of the output buffer into the read buffer,  *)
(* submits, maps the read buffer and polls the device until the map        *)
(* callback has sent on the one-shot channel.                              *)
(*                                                                         *)
(* `gpu` holds the position in run (pc), what the compilation reports      *)
(* (success, messages), the messages printed, the calls made so far (log), *)
(* the state of the map request (cb: none, pending, done), the boxed       *)
(* sender (tx), the number of sends, the status the callback was called    *)
(* with, the iterations of the polling loop and the outcome of run.        *)
(***************************************************************************)
MapStatuses == {"Success", "Error", "DeviceLost"}

InitGpu ==
    /\ depth = 0
    /\ scope = <<>>
    /\ stack = <<>>
    /\ ret = NoNode
    /\ sel = NoSel
    /\ tc = Idle
    /\ visit = Idle
    /\ recond = Idle
    /\ reduce = Idle
    /\ \E success \in BOOLEAN, messages \in 0..MaxMessages :
         gpu = [pc |-> "create", success |-> success, messages |-> messages,
                printed |-> 0, log |-> <<>>, cb |-> "none", tx |-> "None",
                sent |-> 0, status |-> "none", ticks |-> 0, result |-> "none"]

\* run has made a call and goes on to the next statement
Called(call, to) == [gpu EXCEPT !.pc = to, !.log = Append(@, call)]

\* mutant: the callback sends whatever the status
callback_accepts_any(status) == TRUE

\* assert_eq!(res, WGPUBufferMapAsyncStatus_Success)
callback_accepts(status) == status = "Success"

\* map_callback(res, userdata), called by the device for a pending request
map_callback(g, status) ==
    IF callback_accepts(status)
    THEN IF g.tx = "Some"
         THEN [g EXCEPT !.cb = "done", !.status = status, !.tx = "None", !.sent = @ + 1]
         ELSE [g EXCEPT !.cb = "done", !.status = status, !.pc = "panicked",
                        !.result = "panic: unwrap"]
    ELSE [g EXCEPT !.cb = "done", !.status = status, !.pc = "panicked",
                   !.result = "panic: assert"]

\* Device::create, create_shader_module
CreateShaderModule ==
    /\ gpu.pc = "create"
    /\ gpu' = Called("create_shader_module", "info")
    /\ UNCHANGED <<genVars, sel, tc, visit, recond, reduce>>

\* get_compilation_info().await
GetCompilationInfo ==
    /\ gpu.pc = "info"
    /\ gpu' = Called("get_compilation_info", "messages")
    /\ UNCHANGED <<genVars, sel, tc, visit, recond, reduce>>

\* for msg in compilation_info.messages { println!(..) }
PrintMessage ==
    /\ gpu.pc = "messages"
    /\ gpu.printed < gpu.messages
    /\ gpu' = [gpu EXCEPT !.printed = @ + 1]
    /\ UNCHANGED <<genVars, sel, tc, visit, recond, reduce>>

\* if !compilation_info.success { panic!("shader compilation failed") }
CompilationFailed ==
    /\ gpu.pc = "messages"
    /\ gpu.printed = gpu.messages
    /\ ~gpu.success
    /\ gpu' = [gpu EXCEPT !.pc = "panicked", !.result = "panic: shader compilation failed"]
    /\ UNCHANGED <<genVars, sel, tc, visit, recond, reduce>>

CreateComputePipeline ==
    /\ gpu.pc = "messages"
    /\ gpu.printed = gpu.messages
    /\ gpu.success
    /\ gpu' = Called("create_compute_pipeline", "buffers")
    /\ UNCHANGED <<genVars, sel, tc, visit, recond, reduce>>

\* the output and the read buffer
CreateBuffers ==
    /\ gpu.pc = "buffers"
    /\ gpu' = Called("create_buffer", "bind_group")
    /\ UNCHANGED <<genVars, sel, tc, visit, recond, reduce>>

CreateBindGroup ==
    /\ gpu.pc = "bind_group"
    /\ gpu' = Called("create_bind_group", "encoder")
    /\ UNCHANGED <<genVars, sel, tc, visit, recond, reduce>>

CreateCommandEncoder ==
    /\ gpu.pc = "encoder"
    /\ gpu' = Called("create_command_encoder", "begin_pass")
    /\ UNCHANGED <<genVars, sel, tc, visit, recond, reduce>>

BeginComputePass ==
    /\ gpu.pc = "begin_pass"
    /\ gpu' = Called("begin_compute_pass", "dispatch")
    /\ UNCHANGED <<genVars, sel, tc, visit, recond, reduce>>

\* set_pipeline, set_bind_group, dispatch(1, 1, 1)
Dispatch ==
    /\ gpu.pc = "dispatch"
    /\ gpu' = Called("dispatch", "end_pass")
    /\ UNCHANGED <<genVars, sel, tc, visit, recond, reduce>>

\* the block ends: Drop for ComputePassEncoder calls EndPass
EndPass ==
    /\ gpu.pc = "end_pass"
    /\ gpu' = Called("end_pass", "copy")
    /\ UNCHANGED <<genVars, sel, tc, visit, recond, reduce>>

CopyBufferToBuffer ==
    /\ gpu.pc = "copy"
    /\ gpu' = Called("copy_buffer_to_buffer", "finish")
    /\ UNCHANGED <<genVars, sel, tc, visit, recond, reduce>>

Finish ==
    /\ gpu.pc = "finish"
    /\ gpu' = Called("finish", "submit")
    /\ UNCHANGED <<genVars, sel, tc, visit, recond, reduce>>

Submit ==
    /\ gpu.pc = "submit"
    /\ gpu' = Called("submit", "map_async")
    /\ UNCHANGED <<genVars, sel, tc, visit, recond, reduce>>

\* read.map_async(READ, SIZE): the request is pending with the sender boxed;
\* the device may call the callback before wgpuBufferMapAsync returns
MapAsync ==
    /\ gpu.pc = "map_async"
    /\ LET g == [gpu EXCEPT !.pc = "poll", !.log = Append(@, "map_async"),
                            !.cb = "pending", !.tx = "Some"]
       IN  \/ gpu' = g
           \/ \E status \in MapStatuses : gpu' = map_callback(g, status)
    /\ UNCHANGED <<genVars, sel, tc, visit, recond, reduce>>

\* rx.try_recv() is None: device.tick() and sleep; the device may call the
\* callback of the pending request during the tick
Tick ==
    /\ gpu.pc = "poll"
    /\ gpu.sent = 0
    /\ gpu.ticks < MaxTicks
    /\ LET g == [gpu EXCEPT !.log = Append(@, "tick"), !.ticks = @ + 1]
       IN  \/ gpu' = g
           \/ /\ gpu.cb = "pending"
              /\ \E status \in MapStatuses : gpu' = map_callback(g, status)
    /\ UNCHANGED <<genVars, sel, tc, visit, recond, reduce>>

\* rx.try_recv() is Some: the loop ends, the mapped range is read and
\* returned
ReadMappedRange ==
    /\ gpu.pc = "poll"
    /\ gpu.sent > 0
    /\ gpu' = [gpu EXCEPT !.pc = "returned", !.log = Append(@, "get_const_mapped_range"),
                          !.result = "Ok"]
    /\ UNCHANGED <<genVars, sel, tc, visit, recond, reduce>>

NextGpu ==
    \/ CreateShaderModule
    \/ GetCompilationInfo
    \/ PrintMessage
    \/ CompilationFailed
    \/ CreateComputePipeline
    \/ CreateBuffers
    \/ CreateBindGroup
    \/ CreateCommandEncoder
    \/ BeginComputePass
    \/ Dispatch
    \/ EndPass
    \/ CopyBufferToBuffer
    \/ Finish
    \/ Submit
    \/ MapAsync
    \/ Tick
    \/ ReadMappedRange

SpecGpu == InitGpu /\ [][NextGpu]_vars

\* the positions of a call in the log
Calls(call) == {i \in 1..Len(gpu.log) : gpu.log[i] = call}

\* every call b in the log has a call a before it
Before(a, b) == \A j \in Calls(b) : \E i \in Calls(a) : i < j

\* C21: in a run of the harness the pipeline is created only when the
\* compilation reported success and all messages are printed, a failed
\* compilation panics after the messages; the compute pass is ended before
\* the copy is encoded, the command buffer is submitted before map_async,
\* the device is ticked only between map_async and the read, the mapped
\* range is read only after the callback was called with Success, and the
\* sender is sent on at most once
HarnessOrder ==
    /\ Calls("create_compute_pipeline") # {} =>
          gpu.success /\ gpu.printed = gpu.messages
    /\ gpu.result = "panic: shader compilation failed" =>
          /\ ~gpu.success
          /\ gpu.printed = gpu.messages
          /\ Calls("create_compute_pipeline") = {}
    /\ ~gpu.success => Calls("create_compute_pipeline") = {}
    /\ Before("begin_compute_pass", "end_pass")
    /\ Before("end_pass", "copy_buffer_to_buffer")
    /\ Before("copy_buffer_to_buffer", "submit")
    /\ Before("submit", "map_async")
    /\ Before("map_async", "tick")
    /\ \A i \in Calls("get_const_mapped_range") : \A j \in Calls("tick") : j < i
    /\ Calls("get_const_mapped_range") # {} =>
          /\ Calls("map_async") # {}
          /\ gpu.cb = "done"
          /\ gpu.status = "Success"
          /\ gpu.sent = 1
    /\ gpu.sent <= 1
    /\ gpu.cb = "done" /\ gpu.status # "Success" =>
          gpu.pc = "panicked" /\ gpu.sent = 0

\* the mapped range has been read after the callback fired during the
\* second tick
W_HarnessOrder ==
    /\ gpu.pc = "returned"
    /\ gpu.result = "Ok"
    /\ gpu.ticks = 2
    /\ gpu.status = "Success"
    /\ gpu.sent = 1
    /\ gpu.messages = gpu.printed
    /\ gpu.messages > 0

====
